---- MODULE Spec2Model ----
(***************************************************************************)
(* A model of the two plotting scripts of OOCExperiments:                  *)
(*   src/eventlog/plot_event_log.py  (CSV loaders, build_segments, main)   *)
(*   src/visualizer.py               (read_results, prepare_series,        *)
(*                                    sort_jvm_memory_confs, create_plot)  *)
(* Strings that the code parses (integer cells, float cells, memory        *)
(* configurations) are sequences of one-character strings, so that the     *)
(* parsers are computed and not assumed.                                   *)
(***************************************************************************)
EXTENDS Integers, Sequences, FiniteSets, TLC

VARIABLES
    pc,                 \* position in the script that is running
    args,               \* parsed command line: [show_idle, output]
    file,               \* the CSV file handed to the loader under study
    allow_empty,        \* the loader's allow_empty argument
    ret,                \* what the last loader call returned or raised
    compute_entries,    \* main: load_entries(args.csv)
    disk_read_entries,  \* main: load_entries(args.disk_read_csv, True)
    disk_write_entries, \* main: load_entries(args.disk_write_csv, True)
    cache_samples,      \* main: load_cache_samples(args.cache_size_csv, True)
    cache_limits,       \* main: (cache_soft_limit, cache_hard_limit)
    segments,           \* build_segments: thread -> list of (start, duration, label)
    colors,             \* build_segments: the labels that were given a colour
    compute_min,        \* build_segments: min_start
    compute_max,        \* build_segments: max_end
    min_start,          \* main: the time origin passed to plot_timeline
    max_end,            \* main: the time end passed to plot_timeline
    err,                \* the exception that ended the run, "none" if none
    rendered,           \* the outputs made so far: "file", "shown", "pdf", "png"
    unsorted,           \* the list handed to sort_jvm_memory_confs on its own
    data,               \* visualizer main: read_results(args.csv)
    modes,              \* visualizer main: prepare_series(data)[0]
    confs,              \* visualizer main: prepare_series(data)[1]
    series,             \* visualizer main: prepare_series(data)[2]
    y_limit,            \* create_plot: the upper limit of the y axis
    bars,               \* create_plot: the bars drawn, in drawing order
    legend              \* create_plot: the labelled ax.bar calls, in order

vars == <<pc, args, file, allow_empty, ret, compute_entries, disk_read_entries,
          disk_write_entries, cache_samples, cache_limits, segments, colors,
          compute_min, compute_max, min_start, max_end, err, rendered,
          unsorted, data, modes, confs, series, y_limit, bars, legend>>

-----------------------------------------------------------------------------
(* Bounds of the model *)

\* longest TimeEntry list handed to build_segments on its own
MaxEntries == 3
\* most data rows of a CSV file handed to a loader on its own
MaxFileRows == 2
\* most data rows of the compute log in a run of main
MaxRows == 2
\* longest list handed to sort_jvm_memory_confs on its own
MaxConfs == 3
\* most data rows of a results.csv
MaxResultRows == 3

Threads == {0, 1}
Callers == {<<"A">>, <<"B">>}
Starts == {0, 2}
Ends == 1 .. 3

-----------------------------------------------------------------------------
(* Generic helpers *)

MinOf(S) == CHOOSE x \in S : \A y \in S : x <= y
MaxOf(S) == CHOOSE x \in S : \A y \in S : x >= y
Range(s) == {s[i] : i \in 1 .. Len(s)}
SeqsUpTo(S, n) == UNION {[1 .. k -> S] : k \in 0 .. n}

-----------------------------------------------------------------------------
(* int(): the conversion of a CSV cell *)

Digits == {"0", "1", "2", "3", "4", "5", "6", "7", "8", "9"}
\* the cell of a row that is shorter than the header: DictReader gives None
NoCell == <<"None">>

DigitVal(c) ==
    CASE c = "0" -> 0 [] c = "1" -> 1 [] c = "2" -> 2 [] c = "3" -> 3
      [] c = "4" -> 4 [] c = "5" -> 5 [] c = "6" -> 6 [] c = "7" -> 7
      [] c = "8" -> 8 [] c = "9" -> 9

RECURSIVE StripLeft(_)
StripLeft(s) == IF s # <<>> /\ s[1] = " " THEN StripLeft(Tail(s)) ELSE s

RECURSIVE StripRight(_)
StripRight(s) ==
    IF s # <<>> /\ s[Len(s)] = " " THEN StripRight(SubSeq(s, 1, Len(s) - 1)) ELSE s

Strip(s) == StripRight(StripLeft(s))

RECURSIVE DigitsValue(_)
DigitsValue(s) ==
    IF s = <<>> THEN 0
    ELSE 10 * DigitsValue(SubSeq(s, 1, Len(s) - 1)) + DigitVal(s[Len(s)])

AllDigits(s) == s # <<>> /\ \A i \in 1 .. Len(s) : s[i] \in Digits

\* int(cell): [exc |-> "none", v |-> n], or the exception int() raises
ParseInt(cell) ==
    IF cell = NoCell THEN [exc |-> "TypeError", v |-> 0]
    ELSE LET s == Strip(cell)
             signed == s # <<>> /\ s[1] \in {"+", "-"}
             body == IF signed THEN Tail(s) ELSE s
         IN IF ~AllDigits(body) THEN [exc |-> "ValueError", v |-> 0]
            ELSE IF signed /\ s[1] = "-"
                 THEN [exc |-> "none", v |-> 0 - DigitsValue(body)]
                 ELSE [exc |-> "none", v |-> DigitsValue(body)]

-----------------------------------------------------------------------------
(* CSV files as csv.DictReader sees them *)

EntryColumns == {"ThreadID", "CallerID", "StartNanos", "EndNanos"}
CacheColumns == {"Timestamp", "ScheduledEvictionSize", "CacheSize"}
SettingsColumns == {"CacheHardLimit", "CacheEvictionLimit"}

\* a file that does not exist
AbsentFile == [exists |-> FALSE, has_header |-> FALSE, fieldnames |-> {}, rows |-> <<>>]
\* an existing file with no line at all: reader.fieldnames is None
EmptyFile == [exists |-> TRUE, has_header |-> FALSE, fieldnames |-> {}, rows |-> <<>>]
\* a file with a header line and data rows; a row maps each column to its cell
CsvFile(cols, rows) == [exists |-> TRUE, has_header |-> TRUE, fieldnames |-> cols, rows |-> rows]

Raised(exc, what, missing) ==
    [exc |-> exc, what |-> what, missing |-> missing, value |-> <<>>, warning |-> "none"]
Returned(value, warning) ==
    [exc |-> "none", what |-> "none", missing |-> {}, value |-> value, warning |-> warning]

\* a header check that accepts only the required columns and no other
HeaderLacks_ExactHeader(required, fieldnames) == fieldnames # required

\* not required.issubset(reader.fieldnames or [])
HeaderLacks(required, fieldnames) == ~(required \subseteq fieldnames)

\* the first exception among the conversions of one row, "none" if all convert
FirstExc(results) ==
    IF \A i \in 1 .. Len(results) : results[i].exc = "none" THEN "none"
    ELSE results[MinOf({i \in 1 .. Len(results) : results[i].exc # "none"})].exc

EntryCells(row) ==
    <<ParseInt(row["ThreadID"]), ParseInt(row["StartNanos"]), ParseInt(row["EndNanos"])>>

\* a loop of load_entries that puts each converted row in front of the list
RECURSIVE ConvertEntries_Reversed(_, _)
ConvertEntries_Reversed(rows, acc) ==
    IF rows = <<>> THEN [exc |-> "none", value |-> acc]
    ELSE LET c == EntryCells(rows[1])
         IN IF FirstExc(c) # "none" THEN [exc |-> FirstExc(c), value |-> acc]
            ELSE ConvertEntries_Reversed(Tail(rows),
                     <<<<c[1].v, rows[1]["CallerID"], c[2].v, c[3].v>>>> \o acc)

\* the loop of load_entries: [exc, value] with the rows converted before the
\* first one that does not convert
RECURSIVE ConvertEntries(_, _)
ConvertEntries(rows, acc) ==
    IF rows = <<>> THEN [exc |-> "none", value |-> acc]
    ELSE LET c == EntryCells(rows[1])
         IN IF FirstExc(c) # "none" THEN [exc |-> FirstExc(c), value |-> acc]
            ELSE ConvertEntries(Tail(rows),
                     Append(acc, <<c[1].v, rows[1]["CallerID"], c[2].v, c[3].v>>))

load_entries(f, allow) ==
    IF ~f.exists
    THEN IF allow THEN Returned(<<>>, "not found")
         ELSE Raised("FileNotFoundError", "does not exist", {})
    ELSE IF ~f.has_header
    THEN IF allow THEN Returned(<<>>, "no data")
         ELSE Raised("ValueError", "empty or missing a header", {})
    ELSE IF HeaderLacks(EntryColumns, f.fieldnames)
    THEN Raised("ValueError", "missing columns", EntryColumns \ f.fieldnames)
    ELSE LET c == ConvertEntries(f.rows, <<>>)
         IN IF c.exc # "none" THEN Raised(c.exc, "int", {})
            ELSE IF c.value = <<>>
            THEN IF allow THEN Returned(<<>>, "no events")
                 ELSE Raised("ValueError", "no data rows", {})
            ELSE Returned(c.value, "none")

CacheCells(row) ==
    <<ParseInt(row["Timestamp"]), ParseInt(row["ScheduledEvictionSize"]),
      ParseInt(row["CacheSize"])>>

RECURSIVE ConvertSamples(_, _)
ConvertSamples(rows, acc) ==
    IF rows = <<>> THEN [exc |-> "none", value |-> acc]
    ELSE LET c == CacheCells(rows[1])
         IN IF FirstExc(c) # "none" THEN [exc |-> FirstExc(c), value |-> acc]
            ELSE ConvertSamples(Tail(rows), Append(acc, <<c[1].v, c[2].v, c[3].v>>))

load_cache_samples(f, allow) ==
    IF ~f.exists
    THEN IF allow THEN Returned(<<>>, "not found")
         ELSE Raised("FileNotFoundError", "does not exist", {})
    ELSE IF ~f.has_header
    THEN IF allow THEN Returned(<<>>, "no data")
         ELSE Raised("ValueError", "empty or missing a header", {})
    ELSE IF HeaderLacks(CacheColumns, f.fieldnames)
    THEN Raised("ValueError", "missing columns", CacheColumns \ f.fieldnames)
    ELSE LET c == ConvertSamples(f.rows, <<>>)
         IN IF c.exc # "none" THEN Raised(c.exc, "int", {})
            ELSE IF c.value = <<>>
            THEN IF allow THEN Returned(<<>>, "no events")
                 ELSE Raised("ValueError", "no cache size data rows", {})
            ELSE Returned(c.value, "none")

\* an Optional[int] is a list of no or one integer; NoLimits is (None, None)
NoLimits == [soft |-> <<>>, hard |-> <<>>]

\* a load_run_settings that goes through all rows and keeps the last one
load_run_settings_LastRow(f) ==
    IF ~f.exists THEN Returned(NoLimits, "not found")
    ELSE IF ~f.has_header THEN Returned(NoLimits, "no data")
    ELSE IF HeaderLacks(SettingsColumns, f.fieldnames)
    THEN [Returned(NoLimits, "missing columns") EXCEPT
              !.missing = SettingsColumns \ f.fieldnames]
    ELSE IF f.rows = <<>> THEN Returned(NoLimits, "no rows")
    ELSE LET hard == ParseInt(f.rows[Len(f.rows)]["CacheHardLimit"])
             soft == ParseInt(f.rows[Len(f.rows)]["CacheEvictionLimit"])
         IN IF hard.exc # "none" \/ soft.exc # "none"
            THEN Returned(NoLimits, "invalid cache limits")
            ELSE Returned([soft |-> <<soft.v>>, hard |-> <<hard.v>>], "none")

load_run_settings(f) ==
    IF ~f.exists THEN Returned(NoLimits, "not found")
    ELSE IF ~f.has_header THEN Returned(NoLimits, "no data")
    ELSE IF HeaderLacks(SettingsColumns, f.fieldnames)
    THEN [Returned(NoLimits, "missing columns") EXCEPT
              !.missing = SettingsColumns \ f.fieldnames]
    ELSE IF f.rows = <<>> THEN Returned(NoLimits, "no rows")
    ELSE LET hard == ParseInt(f.rows[1]["CacheHardLimit"])
             soft == ParseInt(f.rows[1]["CacheEvictionLimit"])
         IN IF hard.exc # "none" \/ soft.exc # "none"
            THEN Returned(NoLimits, "invalid cache limits")
            ELSE Returned([soft |-> <<soft.v>>, hard |-> <<hard.v>>], "none")

-----------------------------------------------------------------------------
(* find_bounds, find_cache_bounds, build_segments *)

IdleLabel == <<"_", "_", "i", "d", "l", "e", "_", "_">>

\* None is modelled as the empty tuple
find_bounds(es) ==
    IF es = <<>> THEN <<>>
    ELSE <<MinOf({es[i][3] : i \in 1 .. Len(es)}), MaxOf({es[i][4] : i \in 1 .. Len(es)})>>

find_cache_bounds(samples) ==
    IF samples = <<>> THEN <<>>
    ELSE <<MinOf({samples[i][1] : i \in 1 .. Len(samples)}),
           MaxOf({samples[i][1] : i \in 1 .. Len(samples)})>>

\* by_thread[t]: the entries of thread t in input order
ByThread(es, t) == SelectSeq(es, LAMBDA e : e[1] = t)

\* a sort that puts e in front of the entries of equal start
RECURSIVE InsertByStart_BeforeEqual(_, _)
InsertByStart_BeforeEqual(sorted, e) ==
    IF sorted = <<>> THEN <<e>>
    ELSE IF sorted[Len(sorted)][3] < e[3] THEN Append(sorted, e)
    ELSE Append(InsertByStart_BeforeEqual(SubSeq(sorted, 1, Len(sorted) - 1), e),
                sorted[Len(sorted)])

\* list.sort(key=start) is stable: e goes after every entry whose start is <= its own
RECURSIVE InsertByStart(_, _)
InsertByStart(sorted, e) ==
    IF sorted = <<>> THEN <<e>>
    ELSE IF sorted[Len(sorted)][3] <= e[3] THEN Append(sorted, e)
    ELSE Append(InsertByStart(SubSeq(sorted, 1, Len(sorted) - 1), e), sorted[Len(sorted)])

\* a build_segments that leaves each thread's entries in input order
SortByStart_InputOrder(es) == es

RECURSIVE SortByStart(_)
SortByStart(es) ==
    IF es = <<>> THEN <<>>
    ELSE InsertByStart(SortByStart(SubSeq(es, 1, Len(es) - 1)), es[Len(es)])

\* what one iteration of the inner loop appends for thread_entries[idx]
SegmentsAt(te, idx, include_idle) ==
    LET start == te[idx][3]
        end == te[idx][4]
        duration == end - start
        own == <<<<start, duration, te[idx][2]>>>>
    IN IF duration <= 0 THEN <<>>
       ELSE IF ~include_idle /\ idx + 1 <= Len(te) THEN own
       ELSE IF include_idle /\ idx + 1 <= Len(te) /\ te[idx + 1][3] - end > 0
       THEN Append(own, <<end, te[idx + 1][3] - end, IdleLabel>>)
       ELSE own

RECURSIVE ThreadSegments(_, _, _)
ThreadSegments(te, idx, include_idle) ==
    IF idx > Len(te) THEN <<>>
    ELSE SegmentsAt(te, idx, include_idle) \o ThreadSegments(te, idx + 1, include_idle)

\* segments is a defaultdict: a thread gets a key only when a segment is appended
build_segments(es, include_idle) ==
    LET ths == {es[i][1] : i \in 1 .. Len(es)}
        segs == [t \in ths |-> ThreadSegments(SortByStart(ByThread(es, t)), 1, include_idle)]
    IN [segments |-> [t \in {u \in ths : segs[u] # <<>>} |-> segs[t]],
        colors |-> {es[i][2] : i \in 1 .. Len(es)}
                       \cup (IF include_idle THEN {IdleLabel} ELSE {}),
        min_start |-> MinOf({es[i][3] : i \in 1 .. Len(es)}),
        max_end |-> MaxOf({es[i][4] : i \in 1 .. Len(es)})]

-----------------------------------------------------------------------------
(* visualizer.py: characters and floats *)

LowerLetters == <<"a", "b", "c", "d", "e", "f", "g", "h", "i", "j", "k", "l", "m",
                  "n", "o", "p", "q", "r", "s", "t", "u", "v", "w", "x", "y", "z">>
UpperLetters == <<"A", "B", "C", "D", "E", "F", "G", "H", "I", "J", "K", "L", "M",
                  "N", "O", "P", "Q", "R", "S", "T", "U", "V", "W", "X", "Y", "Z">>

LowerSet == {LowerLetters[i] : i \in 1 .. 26}
UpperSet == {UpperLetters[i] : i \in 1 .. 26}

ToLower(c) ==
    IF c \in UpperSet THEN LowerLetters[CHOOSE i \in 1 .. 26 : UpperLetters[i] = c]
    ELSE c

LowerStr(s) == [i \in 1 .. Len(s) |-> ToLower(s[i])]

\* [a-z0-9] under re.IGNORECASE
IsAlnum(c) == c \in Digits \/ c \in LowerSet \/ c \in UpperSet

Whitespace == {" ", "\t"}

\* the character at position i, "" past either end
At(s, i) == IF i >= 1 /\ i <= Len(s) THEN s[i] ELSE ""

\* the first position from i on whose character is not in S
RECURSIVE RunEnd(_, _, _)
RunEnd(s, i, S) == IF i <= Len(s) /\ s[i] \in S THEN RunEnd(s, i + 1, S) ELSE i

\* A float is [k, v]: k is "nan", "inf" or "fin"; v counts hundredths (a sign for
\* "inf"). The model's literals have at most FracDigits fraction digits.
FracDigits == 2
NaN == [k |-> "nan", v |-> 0]
Fin(v) == [k |-> "fin", v |-> v]
isfinite(x) == x.k = "fin"

RECURSIVE Pow(_, _)
Pow(b, n) == IF n = 0 THEN 1 ELSE b * Pow(b, n - 1)

\* digits[.digits] as a count of hundredths
DecimalValue(int_part, frac_part) ==
    DigitsValue(int_part \o frac_part) * Pow(10, FracDigits - Len(frac_part))

\* float(value) for an unsigned or signed decimal, "inf", "infinity" or "nan"
ParseFloat(value) ==
    LET signed == value # <<>> /\ value[1] \in {"+", "-"}
        neg == signed /\ value[1] = "-"
        body == IF signed THEN Tail(value) ELSE value
        low == LowerStr(body)
        j == RunEnd(body, 1, Digits)
        int_part == SubSeq(body, 1, j - 1)
        frac_part == IF At(body, j) = "." THEN SubSeq(body, j + 1, Len(body)) ELSE <<>>
        wellformed ==
            /\ int_part \o frac_part # <<>>
            /\ \A i \in 1 .. Len(frac_part) : frac_part[i] \in Digits
            /\ Len(frac_part) <= FracDigits
            /\ (At(body, j) = "." \/ j = Len(body) + 1)
    IN IF low = <<"n", "a", "n">> THEN [exc |-> "none", x |-> NaN]
       ELSE IF low = <<"i", "n", "f">> \/ low = <<"i", "n", "f", "i", "n", "i", "t", "y">>
       THEN [exc |-> "none", x |-> [k |-> "inf", v |-> IF neg THEN 0 - 1 ELSE 1]]
       ELSE IF ~wellformed THEN [exc |-> "ValueError", x |-> NaN]
       ELSE [exc |-> "none",
             x |-> Fin(IF neg THEN 0 - DecimalValue(int_part, frac_part)
                       ELSE DecimalValue(int_part, frac_part))]

_as_float(raw_value) ==
    IF raw_value = NoCell THEN [exc |-> "AttributeError", x |-> NaN]
    ELSE LET value == Strip(raw_value)
         IN IF value = <<>> \/ LowerStr(value) = <<"n", "a", "n">>
            THEN [exc |-> "none", x |-> NaN]
            ELSE ParseFloat(value)

-----------------------------------------------------------------------------
(* visualizer.py: read_results *)

ExpectedColumns == {"mode", "conf", "rep1"}

\* the loop of read_results; row["mode"] of a header without mode is a KeyError
RECURSIVE ConvertResults(_, _, _)
ConvertResults(cols, rows, acc) ==
    IF rows = <<>> THEN [exc |-> "none", value |-> acc]
    ELSE IF ~(ExpectedColumns \subseteq cols) THEN [exc |-> "KeyError", value |-> acc]
    ELSE LET x == _as_float(rows[1]["rep1"])
         IN IF x.exc # "none" THEN [exc |-> x.exc, value |-> acc]
            ELSE ConvertResults(cols, Tail(rows),
                     Append(acc, <<rows[1]["mode"], rows[1]["conf"], x.x>>))

\* set(reader.fieldnames or []) < expected: a proper subset
ProperSubset(A, B) == A \subseteq B /\ A # B

read_results(f) ==
    LET cols == IF f.has_header THEN f.fieldnames ELSE {}
    IN IF ProperSubset(cols, ExpectedColumns)
       THEN Raised("ValueError", "missing columns", ExpectedColumns \ cols)
       ELSE LET c == ConvertResults(cols, f.rows, <<>>)
            IN IF c.exc # "none" THEN Raised(c.exc, "row", {})
               ELSE Returned(c.value, "none")

-----------------------------------------------------------------------------
(* visualizer.py: ordered_unique, _memory_conf_bytes, sort_jvm_memory_confs *)

RECURSIVE ordered_unique(_)
ordered_unique(values) ==
    IF values = <<>> THEN <<>>
    ELSE LET front == ordered_unique(SubSeq(values, 1, Len(values) - 1))
             value == values[Len(values)]
         IN IF value \in Range(front) THEN front ELSE Append(front, value)

UnitLetters == <<"k", "m", "g", "t", "p">>
IsUnit(c) == ToLower(c) \in {UnitLetters[i] : i \in 1 .. 5}
\* units[unit] as a power of 1024
UnitExp(unit) == IF unit = "" THEN 0 ELSE CHOOSE i \in 1 .. 5 : UnitLetters[i] = unit

\* \d+(?:\.\d+)? taken greedily from the digit at i: the position after it
NumberEnd(s, i) ==
    LET j == RunEnd(s, i, Digits)
    IN IF At(s, j) = "." /\ At(s, j + 1) \in Digits THEN RunEnd(s, j + 1, Digits) ELSE j

\* group(1) = s[i .. e-1] and group(2) = unit as the byte value mant * 1024^exp / 100
Bytes(s, i, e, unit) ==
    LET j == RunEnd(s, i, Digits)
    IN [parsed |-> TRUE,
        mant |-> DecimalValue(SubSeq(s, i, j - 1), SubSeq(s, j + 1, e - 1)),
        exp |-> UnitExp(unit)]

Unparsed == [parsed |-> FALSE, mant |-> 0, exp |-> 0]

\* -xmx\s*(\d+(?:\.\d+)?)\s*([kmgtp]?)(?:i?b)? matches at p; every part after the
\* first digit may match nothing, so the greedy choice is the match
XmxAt(s, p) ==
    /\ p + 3 <= Len(s)
    /\ LowerStr(SubSeq(s, p, p + 3)) = <<"-", "x", "m", "x">>
    /\ At(s, RunEnd(s, p + 4, Whitespace)) \in Digits

XmxBytes(s, p) ==
    LET i == RunEnd(s, p + 4, Whitespace)
        e == NumberEnd(s, i)
        q == RunEnd(s, e, Whitespace)
    IN Bytes(s, i, e, IF IsUnit(At(s, q)) THEN ToLower(At(s, q)) ELSE "")

\* (?![a-z0-9]) at position r
Lookahead(s, r) == ~IsAlnum(At(s, r))

\* (?:i?b)?(?![a-z0-9]) from position r, in the order the matcher tries
SuffixOk(s, r) ==
    \/ ToLower(At(s, r)) = "i" /\ ToLower(At(s, r + 1)) = "b" /\ Lookahead(s, r + 2)
    \/ ToLower(At(s, r)) = "b" /\ Lookahead(s, r + 1)
    \/ Lookahead(s, r)

\* \s*([kmgtp]?)(?:i?b)?(?![a-z0-9]) after a number that ends before e: all the
\* spaces with a unit, all the spaces without one, then one space fewer (the
\* lookahead then sees a space)
TailFrom(s, e) ==
    LET q == RunEnd(s, e, Whitespace)
    IN IF IsUnit(At(s, q)) /\ SuffixOk(s, q + 1)
       THEN [ok |-> TRUE, unit |-> ToLower(At(s, q))]
       ELSE IF SuffixOk(s, q) \/ q > e THEN [ok |-> TRUE, unit |-> ""]
       ELSE [ok |-> FALSE, unit |-> ""]

\* (?<![a-z0-9])(\d+(?:\.\d+)?)\s*([kmgtp]?)(?:i?b)?(?![a-z0-9]) at p: the number
\* with its fraction first, then without it; fewer digits never match, the next
\* character being a digit
BareAt(s, p) ==
    LET j == RunEnd(s, p, Digits)
        e == NumberEnd(s, p)
    IN /\ At(s, p) \in Digits
       /\ ~IsAlnum(At(s, p - 1))
       /\ (TailFrom(s, e).ok \/ TailFrom(s, j).ok)

BareBytes(s, p) ==
    LET j == RunEnd(s, p, Digits)
        e == NumberEnd(s, p)
    IN IF TailFrom(s, e).ok THEN Bytes(s, p, e, TailFrom(s, e).unit)
       ELSE Bytes(s, p, j, TailFrom(s, j).unit)

_memory_conf_bytes(conf) ==
    LET xs == {p \in 1 .. Len(conf) : XmxAt(conf, p)}
        bs == {p \in 1 .. Len(conf) : BareAt(conf, p)}
    IN IF xs # {} THEN XmxBytes(conf, MinOf(xs))
       ELSE IF bs # {} THEN BareBytes(conf, MinOf(bs))
       ELSE Unparsed

\* am * 1024^ae < bm * 1024^be for naturals below 2^31 <= 1024^4, computed
\* without leaving 32 bits. Equal reals give equal floats here and smaller reals
\* smaller floats: a power of 1024 only shifts the exponent of a float.
ScaledLess(am, ae, bm, be) ==
    IF ae = be THEN am < bm
    ELSE IF ae > be
    THEN (IF ae - be >= 4 THEN am = 0 /\ bm > 0
          ELSE LET P == Pow(1024, ae - be)
               IN am < bm \div P \/ (am = bm \div P /\ bm % P > 0))
    ELSE (IF be - ae >= 4 THEN bm > 0
          ELSE am \div Pow(1024, be - ae) < bm)

BytesLess(a, b) == ScaledLess(a.mant, a.exp, b.mant, b.exp)

\* a conf_key that gives an unparseable configuration (0, 0.0, idx)
conf_key_NoUnparsedFlag(idx, conf) ==
    LET b == _memory_conf_bytes(conf)
    IN [flag |-> 0, idx |-> idx,
        bytes |-> IF b.parsed THEN b ELSE [parsed |-> TRUE, mant |-> 0, exp |-> 0]]

\* conf_key(item) for item = (idx, conf): (0, bytes, idx) or (1, 0.0, idx)
conf_key(idx, conf) ==
    LET b == _memory_conf_bytes(conf)
    IN IF b.parsed THEN [flag |-> 0, bytes |-> b, idx |-> idx]
       ELSE [flag |-> 1, bytes |-> [parsed |-> TRUE, mant |-> 0, exp |-> 0], idx |-> idx]

\* the order of Python tuples: the first component that differs decides
KeyLess(a, b) ==
    IF a.flag # b.flag THEN a.flag < b.flag
    ELSE IF BytesLess(a.bytes, b.bytes) \/ BytesLess(b.bytes, a.bytes)
    THEN BytesLess(a.bytes, b.bytes)
    ELSE a.idx < b.idx

\* sorted(indexed, key=conf_key): the keys are pairwise different (idx), so the
\* result is the one arrangement in which every key is below the next; keys[i]
\* is conf_key of item i
RECURSIVE InsertByKey(_, _, _)
InsertByKey(sorted, i, keys) ==
    IF sorted = <<>> THEN <<i>>
    ELSE LET last == sorted[Len(sorted)]
         IN IF KeyLess(keys[i], keys[last])
            THEN Append(InsertByKey(SubSeq(sorted, 1, Len(sorted) - 1), i, keys), last)
            ELSE Append(sorted, i)

RECURSIVE SortedIndices(_, _)
SortedIndices(keys, n) ==
    IF n = 0 THEN <<>> ELSE InsertByKey(SortedIndices(keys, n - 1), n, keys)

sort_jvm_memory_confs(confs_) ==
    LET keys == [i \in 1 .. Len(confs_) |-> conf_key(i, confs_[i])]
        order == SortedIndices(keys, Len(confs_))
    IN [i \in 1 .. Len(confs_) |-> confs_[order[i]]]

-----------------------------------------------------------------------------
(* visualizer.py: prepare_series *)

\* a loop over data whose key is (mode, conf, value)
RECURSIVE FillLookup_KeyWithValue(_, _, _)
FillLookup_KeyWithValue(data_, i, lookup) ==
    IF i > Len(data_) THEN [dup |-> 0, lookup |-> lookup]
    ELSE IF \E j \in 1 .. i - 1 : data_[j] = data_[i] THEN [dup |-> i, lookup |-> lookup]
    ELSE FillLookup_KeyWithValue(data_, i + 1,
             (<<data_[i][1], data_[i][2]>> :> data_[i][3]) @@ lookup)

\* the loop over data: lookup maps the keys stored so far to their values; dup is
\* the position of the row whose key is already in lookup, 0 if the loop ends
RECURSIVE FillLookup(_, _, _)
FillLookup(data_, i, lookup) ==
    IF i > Len(data_) THEN [dup |-> 0, lookup |-> lookup]
    ELSE LET key == <<data_[i][1], data_[i][2]>>
         IN IF key \in DOMAIN lookup THEN [dup |-> i, lookup |-> lookup]
            ELSE FillLookup(data_, i + 1, (key :> data_[i][3]) @@ lookup)

\* lookup.get((mode, conf), 0.0)
LookupGet_ZeroDefault(lookup, mode, conf) ==
    IF <<mode, conf>> \in DOMAIN lookup THEN lookup[<<mode, conf>>] ELSE Fin(0)

\* lookup.get((mode, conf), math.nan)
LookupGet(lookup, mode, conf) ==
    IF <<mode, conf>> \in DOMAIN lookup THEN lookup[<<mode, conf>>] ELSE NaN

prepare_series(data_) ==
    LET modes_ == ordered_unique([i \in 1 .. Len(data_) |-> data_[i][1]])
        confs_ == sort_jvm_memory_confs(
                      ordered_unique([i \in 1 .. Len(data_) |-> data_[i][2]]))
        filled == FillLookup(data_, 1, <<>>)
    IN IF filled.dup # 0
       THEN [exc |-> "ValueError", what |-> "duplicate row",
             mode |-> <<data_[filled.dup][1]>>, conf |-> <<data_[filled.dup][2]>>,
             modes |-> <<>>, confs |-> <<>>, series |-> <<>>]
       ELSE [exc |-> "none", what |-> "none", mode |-> <<>>, conf |-> <<>>,
             modes |-> modes_, confs |-> confs_,
             series |-> [m \in Range(modes_) |->
                            [i \in 1 .. Len(confs_) |->
                                LookupGet(filled.lookup, m, confs_[i])]]]

-----------------------------------------------------------------------------
(* visualizer.py: create_plot *)

\* Heights and y_limit count 1/(100 * Scale), so that finite_max * 1.15 is whole.
Scale == Pow(10, FracDigits)
Height(v) == 100 * v

\* the finite values of series[mode] for mode in modes
FiniteValues(modes_, series_) ==
    UNION {{series_[modes_[m]][i].v :
               i \in {k \in 1 .. Len(series_[modes_[m]]) : isfinite(series_[modes_[m]][k])}} :
           m \in 1 .. Len(modes_)}

YLimit(modes_, series_) ==
    LET finite_values == FiniteValues(modes_, series_)
        finite_max == IF finite_values # {} THEN MaxOf(finite_values) ELSE Scale
    IN IF finite_max > 0 THEN 115 * finite_max ELSE 100 * Scale

\* a loop that skips the non-finite cells without drawing
HatchedBars_Omitted(idx, values, x, height) == <<>>

\* the ax.bar calls of one mode: a hatched bar per non-finite cell as the loop
\* meets it, then the finite cells in one call. x is the configuration's tick
\* and idx the mode's slot within the tick: the bar's centre is
\* x - 0.4 + bar_width / 2 + idx * bar_width.
RECURSIVE HatchedBars(_, _, _, _)
HatchedBars(idx, values, x, height) ==
    IF x > Len(values) THEN <<>>
    ELSE IF isfinite(values[x]) THEN HatchedBars(idx, values, x + 1, height)
    ELSE <<[kind |-> "hatched", idx |-> idx, x |-> x - 1, height |-> height]>>
             \o HatchedBars(idx, values, x + 1, height)

RECURSIVE SolidBars(_, _, _)
SolidBars(idx, values, x) ==
    IF x > Len(values) THEN <<>>
    ELSE IF ~isfinite(values[x]) THEN SolidBars(idx, values, x + 1)
    ELSE <<[kind |-> "solid", idx |-> idx, x |-> x - 1, height |-> Height(values[x].v)]>>
             \o SolidBars(idx, values, x + 1)

\* zip(offsets, series[mode]) stops at the shorter of the two
ModeBars(idx, values, n_confs, height) ==
    LET zipped == SubSeq(values, 1, IF Len(values) < n_confs THEN Len(values) ELSE n_confs)
    IN HatchedBars(idx, zipped, 1, height) \o SolidBars(idx, zipped, 1)

RECURSIVE AllBars(_, _, _, _, _)
AllBars(modes_, series_, n_confs, height, m) ==
    IF m > Len(modes_) THEN <<>>
    ELSE ModeBars(m - 1, series_[modes_[m]], n_confs, height)
             \o AllBars(modes_, series_, n_confs, height, m + 1)

\* both branches of "if finite_x" pass label=mode.upper()
Upper(s) ==
    [i \in 1 .. Len(s) |->
        IF s[i] \in LowerSet
        THEN UpperLetters[CHOOSE k \in 1 .. 26 : LowerLetters[k] = s[i]]
        ELSE s[i]]

Legend(modes_) == [m \in 1 .. Len(modes_) |-> [idx |-> m - 1, label |-> Upper(modes_[m])]]

create_plot(modes_, confs_, series_) ==
    IF modes_ = <<>> \/ confs_ = <<>>
    THEN [exc |-> "ValueError", y_limit |-> 0, bars |-> <<>>, legend |-> <<>>]
    ELSE LET limit == YLimit(modes_, series_)
         IN [exc |-> "none", y_limit |-> limit,
             bars |-> AllBars(modes_, series_, Len(confs_), 2 * limit, 1),
             legend |-> Legend(modes_)]

-----------------------------------------------------------------------------
(* Inputs *)

Digit(n) == CHOOSE c \in Digits : DigitVal(c) = n
\* the cell that holds the one-digit number n
Cell(n) == <<Digit(n)>>

TimeEntry == Threads \X Callers \X Starts \X Ends

\* two entries of one thread with a gap of 100 between them
ExampleEntries == <<<<0, <<"A">>, 100, 200>>, <<0, <<"B">>, 300, 400>>>>

\* the cells a column takes in the files below
CellsOf(column) ==
    CASE column = "ThreadID" -> {<<"0">>}
      [] column = "CallerID" -> {<<"A">>}
      [] column = "StartNanos" -> {<<"1">>, <<" ", "2">>, <<"x">>}
      [] column = "EndNanos" -> {<<"3">>, NoCell}
      [] column = "NumBytes" -> {<<"8">>}
      [] column = "Timestamp" -> {<<"5">>, <<"x">>}
      [] column = "ScheduledEvictionSize" -> {<<"0">>}
      [] column = "CacheSize" -> {<<"4">>, <<"-", "6">>}
      [] column = "CacheHardLimit" -> {<<"9">>, <<"x">>}
      [] column = "CacheEvictionLimit" -> {<<"7">>, NoCell}
      [] column = "mode" -> {<<"g", "c", "1">>, <<"g", "c", "2">>}
      [] column = "conf" -> {<<"4", "g">>, <<"-", "X", "m", "x", "2", "g">>,
                             <<"f", "a", "s", "t">>}
      [] column = "rep1" -> {<<"N", "a", "N">>, <<"i", "n", "f">>, <<"3">>, <<"0">>}
      [] OTHER -> {<<"n">>}

\* the rows of a file whose header is cols
RECURSIVE RowsOf(_)
RowsOf(cols) ==
    IF cols = {} THEN {<<>>}
    ELSE LET c == CHOOSE x \in cols : TRUE
         IN {(c :> v) @@ r : v \in CellsOf(c), r \in RowsOf(cols \ {c})}

\* f is a file a loader with the given required columns is tried on
LoaderFile(f, required, extra) ==
    \/ f \in {AbsentFile, EmptyFile}
    \/ \E cols \in SUBSET (required \cup {extra}) :
          \E k \in 0 .. MaxFileRows :
             \E rows \in [1 .. k -> RowsOf(cols)] : f = CsvFile(cols, rows)

\* a compute or disk row of a run of main
MainRow(start, end) ==
    [c \in EntryColumns |->
        CASE c = "ThreadID" -> Cell(0) [] c = "CallerID" -> <<"A">>
          [] c = "StartNanos" -> Cell(start) [] c = "EndNanos" -> Cell(end)]
MainRows == {MainRow(st, en) : st \in 0 .. 1, en \in 1 .. 2}
MainSample(ts) ==
    [c \in CacheColumns |-> IF c = "Timestamp" THEN Cell(ts) ELSE Cell(0)]
MainSettings == [c \in SettingsColumns |-> IF c = "CacheHardLimit" THEN Cell(9) ELSE Cell(7)]

MainComputeFiles(n) ==
    {AbsentFile, EmptyFile, CsvFile(EntryColumns \ {"EndNanos"}, <<>>)} \cup
    {CsvFile(EntryColumns, rows) : rows \in SeqsUpTo(MainRows, n)}
MainDiskFiles ==
    {AbsentFile, CsvFile({"ThreadID", "NumBytes"}, <<>>)} \cup
    {CsvFile(EntryColumns, rows) : rows \in SeqsUpTo(MainRows, 1)}
MainCacheFiles ==
    {AbsentFile} \cup {CsvFile(CacheColumns, <<MainSample(ts)>>) : ts \in 0 .. 2}
MainSettingsFiles == {AbsentFile, CsvFile(SettingsColumns, <<MainSettings>>)}

\* f is a results.csv: the full header carries up to MaxResultRows rows
VisFile(f) ==
    \/ f \in {AbsentFile, EmptyFile}
    \/ \E cols \in SUBSET (ExpectedColumns \cup {"notes"}) :
          \E k \in 0 .. (IF cols = ExpectedColumns THEN MaxResultRows ELSE 1) :
             \E rows \in [1 .. k -> RowsOf(cols)] : f = CsvFile(cols, rows)

\* the configurations sort_jvm_memory_confs is tried on
SortPool ==
    {<<"4", "g">>, <<"4", "0", "9", "6", "m">>, <<"-", "X", "m", "x", "2", "g">>,
     <<"1", ".", "5", "G", "B">>, <<"5", "1", "2", " ", "k", "i", "b">>,
     <<"4", "g", "x">>, <<"x", "4", "g">>, <<"f", "a", "s", "t">>,
     <<"1", ".", "5", "x">>, <<"8", "g", " ", "-", "x", "m", "x", " ", "1", "t">>}

-----------------------------------------------------------------------------
(* Initial values of the variables a script has not set yet *)

NoCall == file = AbsentFile /\ allow_empty = FALSE /\ ret = Returned(<<>>, "none")
NoLoads ==
    /\ disk_read_entries = <<>> /\ disk_write_entries = <<>> /\ cache_samples = <<>>
    /\ cache_limits = NoLimits /\ min_start = 0 /\ max_end = 0
NoSegments == segments = <<>> /\ colors = {} /\ compute_min = 0 /\ compute_max = 0
NoRun == err = "none" /\ rendered = {}
NoResults ==
    /\ unsorted = <<>> /\ data = <<>> /\ modes = <<>> /\ confs = <<>> /\ series = <<>>
    /\ y_limit = 0 /\ bars = <<>> /\ legend = <<>>

loadVars == <<file, allow_empty>>
mainVars == <<disk_read_entries, disk_write_entries, cache_samples, cache_limits>>
segVars == <<segments, colors, compute_min, compute_max>>
visVars == <<unsorted, data, modes, confs, series, y_limit, bars, legend>>

-----------------------------------------------------------------------------
(* plot_event_log.py: the loaders called on their own *)

InitLoad ==
    /\ \/ pc = "load_entries" /\ LoaderFile(file, EntryColumns, "NumBytes")
       \/ pc = "load_cache_samples" /\ LoaderFile(file, CacheColumns, "Note")
       \/ pc = "load_run_settings" /\ LoaderFile(file, SettingsColumns, "Note")
    /\ allow_empty \in BOOLEAN
    /\ ret = Returned(<<>>, "none")
    /\ args = [show_idle |-> FALSE, output |-> FALSE]
    /\ compute_entries = <<>>
    /\ NoLoads /\ NoSegments /\ NoRun /\ NoResults

CallLoadEntries ==
    /\ pc = "load_entries"
    /\ ret' = load_entries(file, allow_empty)
    /\ pc' = "load_entries returned"
    /\ UNCHANGED <<args, loadVars, compute_entries, mainVars, segVars, min_start,
                   max_end, err, rendered, visVars>>

CallLoadCacheSamples ==
    /\ pc = "load_cache_samples"
    /\ ret' = load_cache_samples(file, allow_empty)
    /\ pc' = "load_cache_samples returned"
    /\ UNCHANGED <<args, loadVars, compute_entries, mainVars, segVars, min_start,
                   max_end, err, rendered, visVars>>

CallLoadRunSettings ==
    /\ pc = "load_run_settings"
    /\ ret' = load_run_settings(file)
    /\ pc' = "load_run_settings returned"
    /\ UNCHANGED <<args, loadVars, compute_entries, mainVars, segVars, min_start,
                   max_end, err, rendered, visVars>>

NextLoad == CallLoadEntries \/ CallLoadCacheSamples \/ CallLoadRunSettings
SpecLoad == InitLoad /\ [][NextLoad]_vars

-----------------------------------------------------------------------------
(* plot_event_log.py: main *)

InitMain ==
    /\ pc = "load_compute"
    /\ args \in [show_idle : BOOLEAN, output : BOOLEAN]
    /\ compute_entries = <<>>
    /\ NoCall /\ NoLoads /\ NoSegments /\ NoRun /\ NoResults

\* a loader call of main: the exception leaves main, the value goes on
Raise(r) ==
    /\ r.exc # "none"
    /\ err' = r.exc
    /\ pc' = "raised"

LoadCompute ==
    /\ pc = "load_compute"
    /\ \E f \in MainComputeFiles(MaxRows) :
          LET r == load_entries(f, FALSE)
          IN /\ ret' = r
             /\ \/ Raise(r) /\ UNCHANGED compute_entries
                \/ /\ r.exc = "none"
                   /\ compute_entries' = r.value
                   /\ pc' = "load_disk_read"
                   /\ UNCHANGED err
    /\ UNCHANGED <<args, loadVars, mainVars, segVars, min_start, max_end, rendered, visVars>>

LoadDiskRead ==
    /\ pc = "load_disk_read"
    /\ \E f \in MainDiskFiles :
          LET r == load_entries(f, TRUE)
          IN /\ ret' = r
             /\ \/ Raise(r) /\ UNCHANGED disk_read_entries
                \/ /\ r.exc = "none"
                   /\ disk_read_entries' = r.value
                   /\ pc' = "load_disk_write"
                   /\ UNCHANGED err
    /\ UNCHANGED <<args, loadVars, compute_entries, disk_write_entries, cache_samples,
                   cache_limits, segVars, min_start, max_end, rendered, visVars>>

LoadDiskWrite ==
    /\ pc = "load_disk_write"
    /\ \E f \in MainDiskFiles :
          LET r == load_entries(f, TRUE)
          IN /\ ret' = r
             /\ \/ Raise(r) /\ UNCHANGED disk_write_entries
                \/ /\ r.exc = "none"
                   /\ disk_write_entries' = r.value
                   /\ pc' = "load_cache"
                   /\ UNCHANGED err
    /\ UNCHANGED <<args, loadVars, compute_entries, disk_read_entries, cache_samples,
                   cache_limits, segVars, min_start, max_end, rendered, visVars>>

LoadCache ==
    /\ pc = "load_cache"
    /\ \E f \in MainCacheFiles :
          LET r == load_cache_samples(f, TRUE)
          IN /\ ret' = r
             /\ \/ Raise(r) /\ UNCHANGED cache_samples
                \/ /\ r.exc = "none"
                   /\ cache_samples' = r.value
                   /\ pc' = "load_run_settings"
                   /\ UNCHANGED err
    /\ UNCHANGED <<args, loadVars, compute_entries, disk_read_entries, disk_write_entries,
                   cache_limits, segVars, min_start, max_end, rendered, visVars>>

LoadRunSettings ==
    /\ pc = "load_run_settings"
    /\ \E f \in MainSettingsFiles :
          LET r == load_run_settings(f)
          IN /\ ret' = r
             /\ cache_limits' = r.value
    /\ pc' = "build_segments"
    /\ UNCHANGED <<args, loadVars, compute_entries, disk_read_entries, disk_write_entries,
                   cache_samples, segVars, min_start, max_end, err, rendered, visVars>>

BuildSegments ==
    /\ pc = "build_segments"
    /\ LET r == build_segments(compute_entries, args.show_idle)
       IN /\ segments' = r.segments
          /\ colors' = r.colors
          /\ compute_min' = r.min_start
          /\ compute_max' = r.max_end
    /\ pc' = "find_bounds"
    /\ UNCHANGED <<args, loadVars, ret, compute_entries, mainVars, min_start, max_end,
                   err, rendered, visVars>>

\* a main that tests "if extra_bounds[0]": bounds that start at 0 are left out
MainBounds_ZeroIsFalsy ==
    LET extra == <<find_bounds(disk_read_entries), find_bounds(disk_write_entries),
                   find_cache_bounds(cache_samples)>>
    IN <<<<compute_min, compute_max>>>>
           \o SelectSeq(extra, LAMBDA b : b # <<>> /\ b[1] # 0)

\* bounds = [(compute_min, compute_max)] plus every extra_bounds that is truthy;
\* a tuple of two numbers is truthy, None is not
MainBounds ==
    LET extra == <<find_bounds(disk_read_entries), find_bounds(disk_write_entries),
                   find_cache_bounds(cache_samples)>>
    IN <<<<compute_min, compute_max>>>> \o SelectSeq(extra, LAMBDA b : b # <<>>)

FindBounds ==
    /\ pc = "find_bounds"
    /\ min_start' = MinOf({MainBounds[i][1] : i \in 1 .. Len(MainBounds)})
    /\ max_end' = MaxOf({MainBounds[i][2] : i \in 1 .. Len(MainBounds)})
    /\ pc' = "plot_timeline"
    /\ UNCHANGED <<args, loadVars, ret, compute_entries, mainVars, segVars, err,
                   rendered, visVars>>

\* an end of plot_timeline that shows the figure after saving it
WriteOrShow_ShowAlways(output) == IF output THEN {"file", "shown"} ELSE {"shown"}

\* the end of plot_timeline: fig.savefig(output) if output, else plt.show()
WriteOrShow(output) == IF output THEN {"file"} ELSE {"shown"}

PlotTimeline ==
    /\ pc = "plot_timeline"
    /\ rendered' = rendered \cup WriteOrShow(args.output)
    /\ pc' = "done"
    /\ UNCHANGED <<args, loadVars, ret, compute_entries, mainVars, segVars, min_start,
                   max_end, err, visVars>>

NextMain ==
    \/ LoadCompute \/ LoadDiskRead \/ LoadDiskWrite \/ LoadCache \/ LoadRunSettings
    \/ BuildSegments \/ FindBounds \/ PlotTimeline
SpecMain == InitMain /\ [][NextMain]_vars

-----------------------------------------------------------------------------
(* plot_event_log.py: build_segments on any list of entries *)

InitSeg ==
    /\ pc = "build_segments"
    /\ args \in [show_idle : BOOLEAN, output : {FALSE}]
    /\ \/ \E k \in 1 .. MaxEntries : compute_entries \in [1 .. k -> TimeEntry]
       \/ compute_entries = ExampleEntries
    /\ NoCall /\ NoLoads /\ NoSegments /\ NoRun /\ NoResults

NextSeg == BuildSegments
SpecSeg == InitSeg /\ [][NextSeg]_vars

-----------------------------------------------------------------------------
(* visualizer.py: main *)

InitVis ==
    /\ pc = "read_results"
    /\ VisFile(file)
    /\ allow_empty = FALSE
    /\ ret = Returned(<<>>, "none")
    /\ args = [show_idle |-> FALSE, output |-> FALSE]
    /\ compute_entries = <<>>
    /\ NoLoads /\ NoSegments /\ NoRun /\ NoResults

\* main up to data = read_results(args.csv)
ReadResults ==
    /\ pc = "read_results"
    /\ LET r == IF ~file.exists THEN Raised("FileNotFoundError", "does not exist", {})
                ELSE read_results(file)
       IN /\ ret' = r
          /\ \/ Raise(r) /\ UNCHANGED data
             \/ /\ r.exc = "none"
                /\ data' = r.value
                /\ pc' = "prepare_series"
                /\ UNCHANGED err
    /\ UNCHANGED <<args, loadVars, compute_entries, mainVars, segVars, min_start,
                   max_end, rendered, unsorted, modes, confs, series, y_limit, bars,
                   legend>>

PrepareSeries ==
    /\ pc = "prepare_series"
    /\ LET r == prepare_series(data)
       IN /\ ret' = r
          /\ \/ Raise(r) /\ UNCHANGED <<modes, confs, series>>
             \/ /\ r.exc = "none"
                /\ modes' = r.modes
                /\ confs' = r.confs
                /\ series' = r.series
                /\ pc' = "create_plot"
                /\ UNCHANGED err
    /\ UNCHANGED <<args, loadVars, compute_entries, mainVars, segVars, min_start,
                   max_end, rendered, unsorted, data, y_limit, bars, legend>>

\* create_plot ends with fig.savefig(output_pdf) and fig.savefig(output_png)
CreatePlot ==
    /\ pc = "create_plot"
    /\ LET r == create_plot(modes, confs, series)
       IN \/ Raise(r) /\ UNCHANGED <<y_limit, bars, legend, rendered>>
          \/ /\ r.exc = "none"
             /\ y_limit' = r.y_limit
             /\ bars' = r.bars
             /\ legend' = r.legend
             /\ rendered' = rendered \cup {"pdf", "png"}
             /\ pc' = "done"
             /\ UNCHANGED err
    /\ UNCHANGED <<args, loadVars, ret, compute_entries, mainVars, segVars, min_start,
                   max_end, unsorted, data, modes, confs, series>>

NextVis == ReadResults \/ PrepareSeries \/ CreatePlot
SpecVis == InitVis /\ [][NextVis]_vars

-----------------------------------------------------------------------------
(* visualizer.py: sort_jvm_memory_confs on any list of configurations *)

InitSort ==
    /\ pc = "sort_jvm_memory_confs"
    /\ \E k \in 0 .. MaxConfs : unsorted \in [1 .. k -> SortPool]
    /\ data = <<>> /\ modes = <<>> /\ confs = <<>> /\ series = <<>>
    /\ y_limit = 0 /\ bars = <<>> /\ legend = <<>>
    /\ args = [show_idle |-> FALSE, output |-> FALSE]
    /\ compute_entries = <<>>
    /\ NoCall /\ NoLoads /\ NoSegments /\ NoRun

SortConfs ==
    /\ pc = "sort_jvm_memory_confs"
    /\ confs' = sort_jvm_memory_confs(unsorted)
    /\ pc' = "sorted"
    /\ UNCHANGED <<args, loadVars, ret, compute_entries, mainVars, segVars, min_start,
                   max_end, err, rendered, unsorted, data, modes, series, y_limit, bars,
                   legend>>

NextSort == SortConfs
SpecSort == InitSort /\ [][NextSort]_vars

-----------------------------------------------------------------------------
(* Claims about build_segments, checked under SpecSeg *)

Built == pc = "find_bounds"
IsIdle(seg) == seg[3] = IdleLabel
NonEmpty(t) == t # <<>>

\* C1: every per-thread segment list returned by build_segments is in
\* non-decreasing order of start_ns, and every segment in it, compute or idle,
\* has a duration above 0; for every non-empty entry list and both values of
\* include_idle.
C1_SortedAndPositive ==
    Built =>
        \A t \in DOMAIN segments :
            /\ \A i \in 1 .. Len(segments[t]) - 1 : segments[t][i][1] <= segments[t][i + 1][1]
            /\ \A i \in 1 .. Len(segments[t]) : segments[t][i][2] > 0

\* three entries given out of start order, one of them dropped, and a thread
\* that got a compute segment, an idle segment and a compute segment
C1_Witness ==
    /\ Built
    /\ args.show_idle
    /\ Len(compute_entries) = 3
    /\ compute_entries[1][3] > compute_entries[3][3]
    /\ \E i \in 1 .. 3 : compute_entries[i][4] <= compute_entries[i][3]
    /\ \E t \in DOMAIN segments :
          /\ Len(segments[t]) = 3
          /\ IsIdle(segments[t][2])
          /\ ~IsIdle(segments[t][3])

\* C2: an idle segment stands only between two compute segments of its thread,
\* starts where the one before it ends, ends where the one after it starts,
\* spans a positive gap and is never the last segment of the list; without
\* include_idle there is no idle segment.
C2_IdleOnlyBetweenIntervals ==
    Built =>
        \A t \in DOMAIN segments :
            \A i \in 1 .. Len(segments[t]) :
                IsIdle(segments[t][i]) =>
                    /\ args.show_idle
                    /\ segments[t][i][2] > 0
                    /\ i > 1
                    /\ ~IsIdle(segments[t][i - 1])
                    /\ segments[t][i - 1][1] + segments[t][i - 1][2] = segments[t][i][1]
                    /\ i < Len(segments[t])
                    /\ ~IsIdle(segments[t][i + 1])
                    /\ segments[t][i][1] + segments[t][i][2] = segments[t][i + 1][1]

-----------------------------------------------------------------------------
(* Claims about main of plot_event_log.py, checked under SpecMain *)

StartsOf(es) == {es[i][3] : i \in 1 .. Len(es)}
EndsOf(es) == {es[i][4] : i \in 1 .. Len(es)}
TimestampsOf(samples) == {samples[i][1] : i \in 1 .. Len(samples)}
BoundsSet == pc \in {"plot_timeline", "done"}

\* C3: the origin passed to plot_timeline is the least StartNanos or Timestamp
\* of everything loaded (compute, disk read, disk write, cache; entries of
\* non-positive duration included), max_end is the greatest EndNanos or
\* Timestamp, and an input that loaded as empty adds nothing.
C3_GlobalBounds ==
    BoundsSet =>
        /\ min_start = MinOf(StartsOf(compute_entries) \cup StartsOf(disk_read_entries)
                                \cup StartsOf(disk_write_entries)
                                \cup TimestampsOf(cache_samples))
        /\ max_end = MaxOf(EndsOf(compute_entries) \cup EndsOf(disk_read_entries)
                              \cup EndsOf(disk_write_entries)
                              \cup TimestampsOf(cache_samples))

\* the origin comes from the disk-write log and the end from the cache log, the
\* disk-read log loaded as empty, and the only compute entry has duration 0
C3_Witness ==
    /\ BoundsSet
    /\ Len(compute_entries) = 1
    /\ compute_entries[1][4] <= compute_entries[1][3]
    /\ disk_read_entries = <<>>
    /\ disk_write_entries # <<>>
    /\ cache_samples # <<>>
    /\ min_start = disk_write_entries[1][3]
    /\ min_start < compute_min
    /\ max_end = cache_samples[1][1]
    /\ max_end > compute_max
    /\ max_end > disk_write_entries[1][4]

-----------------------------------------------------------------------------
(* Claims about sort_jvm_memory_confs, checked under SpecSort *)

Sorted == pc = "sorted"
Parseable(conf) == _memory_conf_bytes(conf).parsed
SameBytes(a, b) ==
    /\ ~BytesLess(_memory_conf_bytes(a), _memory_conf_bytes(b))
    /\ ~BytesLess(_memory_conf_bytes(b), _memory_conf_bytes(a))
IndexPermutations(n) ==
    {p \in [1 .. n -> 1 .. n] : \A i, j \in 1 .. n : p[i] = p[j] => i = j}

\* C4: the list sort_jvm_memory_confs returns is a permutation of its input in
\* which every parseable configuration precedes every unparseable one, the
\* parseable ones are in non-decreasing order of their byte value, parseable
\* ones of equal byte value keep their input order, and the unparseable ones
\* keep their input order.
C4_StableSortBySize ==
    Sorted =>
        \E p \in IndexPermutations(Len(unsorted)) :
            /\ Len(confs) = Len(unsorted)
            /\ \A i \in 1 .. Len(confs) : confs[i] = unsorted[p[i]]
            /\ \A i, j \in 1 .. Len(confs) :
                  i < j =>
                     LET a == unsorted[p[i]]
                         b == unsorted[p[j]]
                     IN /\ Parseable(b) => Parseable(a)
                        /\ Parseable(a) /\ Parseable(b) =>
                              ~BytesLess(_memory_conf_bytes(b), _memory_conf_bytes(a))
                        /\ Parseable(a) /\ Parseable(b) /\ SameBytes(a, b) => p[i] < p[j]
                        /\ ~Parseable(a) /\ ~Parseable(b) => p[i] < p[j]

\* an unparseable configuration given first moves behind two differently
\* written configurations of equal size, which keep their order
C4_Witness ==
    /\ Sorted
    /\ Len(unsorted) = 3
    /\ ~Parseable(unsorted[1])
    /\ Parseable(unsorted[2]) /\ Parseable(unsorted[3])
    /\ unsorted[2] # unsorted[3]
    /\ SameBytes(unsorted[2], unsorted[3])
    /\ confs = <<unsorted[2], unsorted[3], unsorted[1]>>

-----------------------------------------------------------------------------
(* Claims about the loaders of plot_event_log.py, checked under SpecLoad *)

LoaderReturned == pc \in {"load_entries returned", "load_cache_samples returned"}
RequiredColumns == IF pc = "load_entries returned" THEN EntryColumns ELSE CacheColumns
AbsentColumns == RequiredColumns \ file.fieldnames
TypedRow(row) ==
    IF pc = "load_entries returned"
    THEN <<ParseInt(row["ThreadID"]).v, row["CallerID"], ParseInt(row["StartNanos"]).v,
           ParseInt(row["EndNanos"]).v>>
    ELSE <<ParseInt(row["Timestamp"]).v, ParseInt(row["ScheduledEvictionSize"]).v,
           ParseInt(row["CacheSize"]).v>>

\* C6: when the header of the file lacks some of the required columns,
\* load_entries and load_cache_samples raise the missing-columns error naming
\* exactly the absent required columns, whatever other columns the header has;
\* when none is absent, a further column causes no such error.
C6_MissingColumnsNamed ==
    LoaderReturned /\ file.exists /\ file.has_header =>
        IF AbsentColumns # {}
        THEN /\ ret.exc = "ValueError"
             /\ ret.what = "missing columns"
             /\ ret.missing = AbsentColumns
        ELSE ret.what # "missing columns"

\* a header with NumBytes and without EndNanos: the error names EndNanos alone
C6_Witness ==
    /\ pc = "load_entries returned"
    /\ file.has_header
    /\ file.fieldnames = {"ThreadID", "CallerID", "StartNanos", "NumBytes"}
    /\ file.rows # <<>>
    /\ ret.what = "missing columns"
    /\ ret.missing = {"EndNanos"}

NothingToLoad ==
    \/ ~file.exists
    \/ ~file.has_header
    \/ AbsentColumns = {} /\ file.rows = <<>>

\* C8: for a file that is absent, has no header, or has all required columns
\* and no data row, load_entries and load_cache_samples raise when allow_empty
\* is false and return an empty list after a warning when it is true; every
\* other call that returns gives one typed row per data row, in file order.
C8_EmptyInputs ==
    LoaderReturned =>
        IF NothingToLoad
        THEN IF allow_empty
             THEN ret.exc = "none" /\ ret.value = <<>> /\ ret.warning # "none"
             ELSE ret.exc # "none"
        ELSE ret.exc = "none" =>
                /\ ret.warning = "none"
                /\ Len(ret.value) = Len(file.rows)
                /\ \A i \in 1 .. Len(file.rows) : ret.value[i] = TypedRow(file.rows[i])

\* an optional file with a full header and no data row loads as empty
C8_Witness ==
    /\ pc = "load_entries returned"
    /\ allow_empty
    /\ file.has_header
    /\ EntryColumns \subseteq file.fieldnames
    /\ file.rows = <<>>
    /\ ret.exc = "none"
    /\ ret.value = <<>>
    /\ ret.warning = "no events"

-----------------------------------------------------------------------------
(* Claims about visualizer.py, checked under SpecVis *)

\* prepare_series has been called on data and ret holds its outcome
Prepared ==
    \/ pc \in {"create_plot", "done"}
    \/ pc = "raised" /\ ret.what \in {"duplicate row", "none"}
SameKey(i, j) == data[i][1] = data[j][1] /\ data[i][2] = data[j][2]
Repeats == {j \in 1 .. Len(data) : \E i \in 1 .. j - 1 : SameKey(i, j)}

\* C5: prepare_series raises the duplicate-row error exactly when two rows of
\* its input share (mode, conf), whatever their values and positions, and the
\* error names the mode and the conf of the first row, in input order, that
\* repeats an earlier one.
C5_DuplicateRowNamed ==
    Prepared =>
        IF Repeats # {}
        THEN /\ pc = "raised"
             /\ err = "ValueError"
             /\ ret.what = "duplicate row"
             /\ ret.mode = <<data[MinOf(Repeats)][1]>>
             /\ ret.conf = <<data[MinOf(Repeats)][2]>>
        ELSE ret.exc = "none"

\* the third row repeats the first with another value, a different row between
C5_Witness ==
    /\ pc = "raised"
    /\ Len(data) = 3
    /\ SameKey(1, 3)
    /\ ~SameKey(1, 2)
    /\ data[1][3] # data[3][3]
    /\ ret.what = "duplicate row"
    /\ ret.mode = <<data[3][1]>>
    /\ ret.conf = <<data[3][2]>>

\* C7: read_results fails with the missing-columns error naming the absent
\* columns for every header that lacks one of mode, conf, rep1, also when the
\* header carries a column outside that set.
C7_MissingColumnsAnyHeader ==
    pc # "read_results" /\ file.exists /\ file.has_header
          /\ ~(ExpectedColumns \subseteq file.fieldnames) =>
        /\ pc = "raised"
        /\ err = "ValueError"
        /\ ret.what = "missing columns"
        /\ ret.missing = ExpectedColumns \ file.fieldnames

ModesOf(rows) == {rows[i][1] : i \in 1 .. Len(rows)}
ConfsOf(rows) == {rows[i][2] : i \in 1 .. Len(rows)}
FirstRow(mode) == MinOf({i \in 1 .. Len(data) : data[i][1] = mode})
Distinct(seq) == \A i, j \in 1 .. Len(seq) : seq[i] = seq[j] => i = j
RowsFor(mode, conf) == {i \in 1 .. Len(data) : data[i][1] = mode /\ data[i][2] = conf}
SeriesReturned == Prepared /\ ret.exc = "none"

\* C9: for a duplicate-free input, prepare_series returns the distinct modes in
\* first-seen order, the distinct confs, and for every mode a list with one
\* element per conf: the value of the row (mode, conf) if there is one, NaN
\* otherwise.
C9_SeriesShape ==
    SeriesReturned /\ Repeats = {} =>
        /\ Distinct(modes) /\ Range(modes) = ModesOf(data)
        /\ \A i, j \in 1 .. Len(modes) : i < j => FirstRow(modes[i]) < FirstRow(modes[j])
        /\ Distinct(confs) /\ Range(confs) = ConfsOf(data)
        /\ DOMAIN series = Range(modes)
        /\ \A m \in Range(modes) :
              /\ Len(series[m]) = Len(confs)
              /\ \A i \in 1 .. Len(confs) :
                    IF RowsFor(m, confs[i]) # {}
                    THEN \E r \in RowsFor(m, confs[i]) : series[m][i] = data[r][3]
                    ELSE series[m][i] = NaN

\* two modes and two confs in three rows of finite values: one cell is NaN
C9_Witness ==
    /\ pc = "create_plot"
    /\ Len(data) = 3
    /\ Len(modes) = 2 /\ Len(confs) = 2
    /\ modes[1] = data[1][1]
    /\ \A r \in 1 .. 3 : isfinite(data[r][3])
    /\ \E m \in Range(modes) : \E i \in 1 .. 2 :
          RowsFor(m, confs[i]) = {} /\ series[m][i] = NaN

Plotted == pc = "done"
BarsAt(m, x) == {b \in 1 .. Len(bars) : bars[b].idx = m - 1 /\ bars[b].x = x - 1}

\* C10: create_plot draws exactly one bar for every (mode, conf) cell: a solid
\* bar of the value for a finite cell, a hatched bar higher than the y-axis
\* limit for a NaN or other non-finite cell; and every mode has a legend entry,
\* also a mode with no finite value.
C10_OneBarPerCell ==
    Plotted =>
        /\ Len(bars) = Len(modes) * Len(confs)
        /\ \A m \in 1 .. Len(modes) : \A x \in 1 .. Len(confs) :
              /\ Cardinality(BarsAt(m, x)) = 1
              /\ \A b \in BarsAt(m, x) :
                    IF isfinite(series[modes[m]][x])
                    THEN /\ bars[b].kind = "solid"
                         /\ bars[b].height = Height(series[modes[m]][x].v)
                    ELSE /\ bars[b].kind = "hatched"
                         /\ bars[b].height > y_limit
        /\ \A m \in 1 .. Len(modes) :
              \E l \in 1 .. Len(legend) :
                 legend[l].idx = m - 1 /\ legend[l].label = Upper(modes[m])

\* a plot of two modes: one has a finite value, the other none, and its cells
\* are a missing combination and an infinite value
C10_Witness ==
    /\ Plotted
    /\ Len(modes) = 2 /\ Len(confs) = 2 /\ Len(legend) = 2
    /\ \E x \in 1 .. 2 : isfinite(series[modes[1]][x]) /\ series[modes[1]][x].v > 0
    /\ \A x \in 1 .. 2 : ~isfinite(series[modes[2]][x])
    /\ \E x \in 1 .. 2 : series[modes[2]][x] # NaN
    /\ \E x \in 1 .. 2 : RowsFor(modes[2], confs[x]) = {}
    /\ \E b \in 1 .. Len(bars) : bars[b].kind = "hatched" /\ bars[b].idx = 1

-----------------------------------------------------------------------------
(* Claims about the runs of both scripts. The invariant is one formula over the
   runs of plot_event_log.py (SpecMain) and of visualizer.py (SpecVis), and it
   is an invariant of each of the two specifications. *)

-----------------------------------------------------------------------------
(* Claims about the exact output of build_segments, checked under SpecSeg *)

EntriesOf(t) == SelectSeq(compute_entries, LAMBDA e : e[1] = t)
ThreadsOf(es) == {es[i][1] : i \in 1 .. Len(es)}

\* the entries te as segments, an idle segment with the given label after
\* entry i when entry i + 1 starts after entry i ends
RECURSIVE Interleaved(_, _, _)
Interleaved(te, i, label) ==
    IF i > Len(te) THEN <<>>
    ELSE <<<<te[i][3], te[i][4] - te[i][3], te[i][2]>>>>
            \o (IF i < Len(te) /\ te[i + 1][3] > te[i][4]
                THEN <<<<te[i][4], te[i + 1][3] - te[i][4], label>>>>
                ELSE <<>>)
            \o Interleaved(te, i + 1, label)

\* with idle enabled, every thread whose entries all have positive duration
\* gets its entries in ascending start order, equal starts in input order, with
\* the idle segments labelled label; and the example's segments
ExactSegments(label) ==
    Built /\ args.show_idle =>
        /\ \A t \in ThreadsOf(compute_entries) :
              LET te == EntriesOf(t)
              IN (\A i \in 1 .. Len(te) : te[i][4] > te[i][3]) =>
                    /\ t \in DOMAIN segments
                    /\ \E p \in IndexPermutations(Len(te)) :
                          /\ \A i, j \in 1 .. Len(te) :
                                i < j =>
                                   /\ te[p[i]][3] <= te[p[j]][3]
                                   /\ te[p[i]][3] = te[p[j]][3] => p[i] < p[j]
                          /\ segments[t] = Interleaved([i \in 1 .. Len(te) |-> te[p[i]]], 1, label)
        /\ compute_entries = ExampleEntries =>
              segments = (0 :> <<<<100, 100, <<"A">>>>, <<200, 100, label>>,
                                 <<300, 100, <<"B">>>>>>)

Disjoint(s1, d1, s2, d2) == s1 + d1 <= s2 \/ s2 + d2 <= s1

\* C13: no idle segment returned by build_segments overlaps a compute segment
\* of the same thread: the half-open intervals of the two are disjoint, also
\* for threads whose intervals overlap or nest.
C13_IdleNeverOverlapsCompute ==
    Built =>
        \A t \in DOMAIN segments :
            \A i, j \in 1 .. Len(segments[t]) :
                IsIdle(segments[t][i]) /\ ~IsIdle(segments[t][j]) =>
                    Disjoint(segments[t][i][1], segments[t][i][2],
                             segments[t][j][1], segments[t][j][2])

-----------------------------------------------------------------------------
(* Claims about load_run_settings, checked under SpecLoad *)

SettingsReturned == pc = "load_run_settings returned"
IsInt(cell) == ParseInt(cell).exc = "none"
\* the file gives no limits: it is absent, has no header, lacks one of the two
\* columns, has no row, or its first row holds a limit that is not an integer
NoLimitsInFile ==
    \/ ~file.exists
    \/ ~file.has_header
    \/ ~(SettingsColumns \subseteq file.fieldnames)
    \/ file.rows = <<>>
    \/ ~IsInt(file.rows[1]["CacheHardLimit"])
    \/ ~IsInt(file.rows[1]["CacheEvictionLimit"])

\* C14: load_run_settings never raises; it returns (None, None) for a missing
\* file, a file with no header, a header without CacheHardLimit or
\* CacheEvictionLimit, a file with no row and a first row whose limits are not
\* integers, and otherwise (CacheEvictionLimit, CacheHardLimit) of the first
\* row, whatever the later rows hold; the two limits are both None or both
\* integers.
C14_RunSettingsNeverRaise ==
    SettingsReturned =>
        /\ ret.exc = "none"
        /\ Len(ret.value.soft) = Len(ret.value.hard)
        /\ IF NoLimitsInFile
           THEN ret.value = NoLimits /\ ret.warning # "none"
           ELSE ret.value =
                   [soft |-> <<ParseInt(file.rows[1]["CacheEvictionLimit"]).v>>,
                    hard |-> <<ParseInt(file.rows[1]["CacheHardLimit"]).v>>]

\* the first row holds the limits 7 and 9 and the second row holds no integer:
\* the limits of the first row are returned
C14_Witness ==
    /\ SettingsReturned
    /\ file.has_header
    /\ Len(file.rows) = 2
    /\ SettingsColumns \subseteq file.fieldnames
    /\ ~IsInt(file.rows[2]["CacheHardLimit"])
    /\ ~IsInt(file.rows[2]["CacheEvictionLimit"])
    /\ ret.value = [soft |-> <<7>>, hard |-> <<9>>]

====
